---- MODULE Spec2Model ----
(***************************************************************************)
(* Model of src/nava.py: HighTechWebtoonDownloader and                      *)
(* main_download_process.  One run: title lookup, concurrent discovery of   *)
(* the episode pages, concurrent download of every discovered image with    *)
(* retry and backoff, statistics.                                           *)
(*                                                                          *)
(* The coroutines run on one asyncio event loop, so the code between two    *)
(* awaits is one atomic step.  The awaits of a download task are the GET    *)
(* (entering `async with client.get`), response.read() and asyncio.sleep;   *)
(* the awaits of discovery are the page GETs joined by asyncio.gather.      *)
(* The network and the filesystem are the environment: every answer they    *)
(* can give is an input drawn with \E from a small set.                     *)
(***************************************************************************)
EXTENDS Integers, Sequences, FiniteSets, TLC

VARIABLES
    comic_id,       \* main_download_process argument
    start,          \* main_download_process argument
    end,            \* main_download_process argument (the user's end episode)
    os_name,        \* os.name of the interpreter running the script, once it has
                    \* shown: "posix" | "nt"
    phase,          \* "title" | "discover" | "download" | "finished" | "crashed"
    full_path,      \* Path(outpath) / title, as the title's characters
    responses,      \* the slots of asyncio.gather over the page fetches, in urls order
    arrival,        \* slot numbers in the order their fetches completed
    dl,             \* self.dl: image URLs
    sp,             \* self.sp: destination paths
    fs,             \* files below full_path: relative path -> file | NoFile
    dirs,           \* episode folders below full_path that exist
    pc,             \* task -> "start" | "get" | "read" | "sleep" | "done"
    attempt,        \* task -> the local variable attempt
    result,         \* task -> "none" | "True" | "False", the coroutine's return value
    session_stats,  \* self.session_stats (the three counters)
    reported,       \* what print_stats displayed, or NotReported
    \* history variables: they record what happened and steer nothing
    fs0,            \* fs as it was before the run
    fetched,        \* episode number -> page GETs issued for it
    gets,           \* task -> image GETs issued
    waits,          \* task -> the asyncio.sleep durations so far
    last,           \* task -> size of the body its latest attempt size-checked
    served,         \* task -> the network delivered a body above 1024 bytes
                    \*         and the filesystem took it
    \* SmartEnvironmentManager, which main runs before the download
    env_pc,         \* where setup_environment is: "analyze" | "create_venv" |
                    \* "install" | "verify" | "retry" | "done" | "raised"
    idx,            \* position in the loop that is running
    cache_data,     \* self.cache_data: cache key -> stored value
    missing_external,   \* the packages analyze_required_modules found missing
    base_has,       \* module -> it imports in the base environment
    venv_exists,    \* self.env_path.exists()
    venv_has,       \* package -> it imports in the virtual environment
    first_check,    \* package -> what the verification after its install returned
    retry_check,    \* package -> what the retried verification returned
    \* history variables of the cache
    calls,          \* check key -> calls of _is_module_available
    probes,         \* check key -> calls that probed the environment
    ret             \* the latest call of _is_module_available: key and value

download_vars == <<comic_id, start, end, os_name, phase, full_path, responses, arrival,
                   dl, sp, fs, dirs, pc, attempt, result, session_stats, reported,
                   fs0, fetched, gets, waits, last, served>>
env_vars == <<env_pc, idx, cache_data, missing_external, base_has, venv_exists, venv_has,
              first_check, retry_check, calls, probes, ret>>
vars == <<download_vars, env_vars>>

(***************************************************************************)
(* Bounds of the model.                                                     *)
(***************************************************************************)
MaxEpisode == 2     \* start and end are drawn from 1..MaxEpisode
MaxImgTags == 2     \* img elements in one episode page
MaxTasks == 2       \* images discovered in one run
MaxPreFiles == 1    \* image files already in the output tree before the run
MaxPreStem == 0     \* the highest image index among those files
MaxPackages == 2    \* external packages setup_environment looks at
MaxBuiltins == 1    \* built-in modules analyze_required_modules looks at
MaxCached == 1      \* entries of the cache file when the program starts

(***************************************************************************)
(* Program constants.                                                       *)
(***************************************************************************)
max_retries == 5            \* fetch_download_image: max_retries = 5
ExistsThreshold == 1024     \* if file_size > 1024
ValidThreshold == 1024      \* if temp_path.stat().st_size > 1024
BackoffBase == 2            \* wait_time = 2 ** attempt
HTTP_OK == 200

ComicIds == {12345}
\* the platforms the script provides for (_get_venv_python): Unix-like, Windows
OsNames == {"posix", "nt"}
\* The platform is fixed for a run and the run depends on it in one place
\* only, Path.rename onto an existing file: the model draws it there, the
\* first time, and keeps it.
Unobserved == "unobserved"
EpisodeArgs == 1..MaxEpisode
EpisodeNos == 0..(MaxEpisode + 2)   \* every episode number a fetch could name

(***************************************************************************)
(* Values.                                                                  *)
(***************************************************************************)
NoTitle == <<>>
NoBody == -1     \* `last` of a task whose latest attempt checked no body
NotReported == [images_downloaded |-> -1, images_skipped |-> -1,
                failed_downloads |-> -1, total_processed |-> -1]

\* A file: its size, whether it is a completely written body, and where it
\* came from ("pre": there before the run, "net": a response body).
NoFile == [size |-> -1, whole |-> FALSE, origin |-> "none"]
BodySizes == {0, 1024, 1025}
PreSizes == {0, 1024, 1025}
Body(n) == [size |-> n, whole |-> TRUE, origin |-> "net"]
PreFile(n) == [size |-> n, whole |-> TRUE, origin |-> "pre"]
Partial(n) == [size |-> n, whole |-> FALSE, origin |-> "net"]

\* Relative paths below full_path: <episode>/<stem>.<suffix>
RelPaths == [ep : EpisodeNos, stem : 0..(MaxImgTags - 1), suffix : {"jpg", "tmp"}]

\* The filesystem below full_path is a function from the paths that exist to
\* their files.
\* Path.exists / Path.stat: the file at p, NoFile when there is none
stat(f, p) == IF p \in DOMAIN f THEN f[p] ELSE NoFile
\* open(p, 'wb') and write: p holds exactly x
write(f, p, x) == [q \in DOMAIN f \cup {p} |-> IF q = p THEN x ELSE f[q]]
\* Path.unlink
unlink(f, p) == [q \in DOMAIN f \ {p} |-> f[q]]
\* Path.rename where it replaces: dst holds what src held, src is gone
rename(f, src, dst) == IF src = dst THEN f ELSE unlink(write(f, dst, stat(f, src)), src)

\* Path(full_path) / str(cur) / f"{e}.jpg"
Path(root, cur, e) == [root |-> root, ep |-> cur, stem |-> e, suffix |-> "jpg"]
\* one temp name for the whole folder
with_suffix_shared(p, s) == [p EXCEPT !.stem = 0, !.suffix = s]
\* Path.with_suffix
with_suffix(p, s) == [p EXCEPT !.suffix = s]
\* Path.parent, as the episode folder's number
parent(p) == p.ep
\* the place of an absolute path in fs
Rel(p) == [ep |-> p.ep, stem |-> p.stem, suffix |-> p.suffix]

\* list(range(a, b))
RECURSIVE range_list(_, _)
range_list(a, b) == IF a >= b THEN <<>> ELSE <<a>> \o range_list(a + 1, b)

\* b ** n
RECURSIVE Pow(_, _)
Pow(b, n) == IF n = 0 THEN 1 ELSE b * Pow(b, n - 1)

\* str(n) for n >= 0, as a sequence of characters
Digit(d) == CASE d = 0 -> "0" [] d = 1 -> "1" [] d = 2 -> "2" [] d = 3 -> "3"
              [] d = 4 -> "4" [] d = 5 -> "5" [] d = 6 -> "6" [] d = 7 -> "7"
              [] d = 8 -> "8" [] d = 9 -> "9"
RECURSIVE str(_)
str(n) == IF n < 10 THEN <<Digit(n)>> ELSE str(n \div 10) \o <<Digit(n % 10)>>

(***************************************************************************)
(* get_comic_title.                                                         *)
(***************************************************************************)
IllegalChars == {"<", ">", ":", "\"", "/", "\\", "|", "?", "*"}
\* re.sub(r'[<>:"/\\|?*]', '-', title_content)
Sanitize(s) == [i \in 1..Len(s) |-> IF s[i] \in IllegalChars THEN "-" ELSE s[i]]
\* f"comic_{comic_id}"
FallbackTitle(id) == <<"c", "o", "m", "i", "c", "_">> \o str(id)

\* What requests.get(name_url) can do: raise, or return a response whose page
\* has no og:title meta tag, a tag without a content attribute, or a title.
ListingResponses ==
    {[raised |-> TRUE, status |-> 0, meta |-> FALSE, content |-> FALSE, text |-> <<>>]}
    \cup {[raised |-> FALSE, status |-> 404, meta |-> FALSE, content |-> FALSE, text |-> <<>>]}
    \cup {[raised |-> FALSE, status |-> HTTP_OK, meta |-> FALSE, content |-> FALSE, text |-> <<>>]}
    \cup {[raised |-> FALSE, status |-> HTTP_OK, meta |-> TRUE, content |-> FALSE, text |-> <<>>]}
    \cup {[raised |-> FALSE, status |-> HTTP_OK, meta |-> TRUE, content |-> TRUE, text |-> <<"a", "/">>]}

\* get_comic_title: [raises, title].  requests.get is not inside a try, and
\* re.sub raises TypeError when meta_tag.get('content') is None.
get_comic_title(id, r) ==
    IF r.raised THEN [raises |-> TRUE, title |-> NoTitle]
    ELSE IF r.status = HTTP_OK /\ r.meta
         THEN IF r.content THEN [raises |-> FALSE, title |-> Sanitize(r.text)]
              ELSE [raises |-> TRUE, title |-> NoTitle]
         ELSE [raises |-> FALSE, title |-> FallbackTitle(id)]

(***************************************************************************)
(* fetch_url and the episode pages.                                         *)
(***************************************************************************)
NoSrc == "<no src>"             \* img.get('src') is None
Srcs == {NoSrc, "", "a", "b"}
RECURSIVE SeqsUpTo(_, _)
SeqsUpTo(S, n) ==
    IF n = 0 THEN {<<>>}
    ELSE LET shorter == SeqsUpTo(S, n - 1)
         IN shorter \cup {Append(q, x) : q \in {r \in shorter : Len(r) = n - 1}, x \in S}

Pending == [kind |-> "pending", container |-> FALSE, imgs |-> <<>>]
None == [kind |-> "None", container |-> FALSE, imgs |-> <<>>]
Text(c, imgs) == [kind |-> "text", container |-> c, imgs |-> imgs]
Pages == {Text(FALSE, <<>>)} \cup {Text(TRUE, q) : q \in SeqsUpTo(Srcs, MaxImgTags)}

\* What client.get(url) can do for an episode page.
PageResponses ==
    {[raised |-> TRUE, status |-> 0, text |-> None]}
    \cup {[raised |-> FALSE, status |-> 404, text |-> None]}
    \cup {[raised |-> FALSE, status |-> HTTP_OK, text |-> p] : p \in Pages}

\* fetch_url: response.text on status 200, None on another status or an exception
fetch_url(r) == IF ~r.raised /\ r.status = HTTP_OK THEN r.text ELSE None

\* the img_links of one page: src values that are non-empty strings, in order
usable(src) == src # NoSrc /\ src # ""
img_links(content) == SelectSeq(content.imgs, usable)
\* does the loop body run for this slot: `if content:` and `if div:`
has_div(content) == content.kind = "text" /\ content.container

\* every image of an episode named 0.jpg
save_paths_unindexed(root, cur, n) == [e \in 1..n |-> Path(root, cur, 0)]
\* save_paths for one episode
save_paths(root, cur, n) == [e \in 1..n |-> Path(root, cur, e - 1)]

\* a gather that hands the results back in completion order
gather_by_completion(slots, order) ==
    [i \in 1..Len(slots) |-> IF i \in DOMAIN order THEN slots[order[i]] ELSE slots[i]]
\* asyncio.gather: the results in the order of the awaitables
gather(slots, order) == slots

\* a loop that stops at the first episode without content or container
RECURSIVE extract_loop_break(_, _, _, _, _)
extract_loop_break(root, curs, resps, i, acc) ==
    IF i > Len(curs) \/ i > Len(resps) THEN acc
    ELSE IF has_div(resps[i])
         THEN LET links == img_links(resps[i])
              IN extract_loop_break(root, curs, resps, i + 1,
                     [dl |-> acc.dl \o links,
                      sp |-> acc.sp \o save_paths(root, curs[i], Len(links)),
                      dirs |-> acc.dirs \cup {curs[i]}])
         ELSE acc

\* for cur, content in zip(range(start, end), responses): the loop of
\* extract_episode_data from position i on, as [dl, sp, dirs]
RECURSIVE extract_loop(_, _, _, _, _)
extract_loop(root, curs, resps, i, acc) ==
    IF i > Len(curs) \/ i > Len(resps) THEN acc
    ELSE IF has_div(resps[i])
         THEN LET links == img_links(resps[i])
              IN extract_loop(root, curs, resps, i + 1,
                     [dl |-> acc.dl \o links,
                      sp |-> acc.sp \o save_paths(root, curs[i], Len(links)),
                      dirs |-> acc.dirs \cup {curs[i]}])
         ELSE extract_loop(root, curs, resps, i + 1, acc)

(***************************************************************************)
(* SmartEnvironmentManager: the cache and _is_module_available.             *)
(***************************************************************************)
\* external_packages of analyze_required_modules, in the order of the dict
ExternalPackages == <<"aiohttp", "beautifulsoup4", "httpx", "requests">>
\* builtin_modules of analyze_required_modules
BuiltinModules == <<"asyncio", "pathlib", "re", "time", "json", "os", "sys",
                    "subprocess", "hashlib", "venv", "importlib", "argparse">>
Least(a, b) == IF a <= b THEN a ELSE b
Packages == SubSeq(ExternalPackages, 1, Least(MaxPackages, Len(ExternalPackages)))
Builtins == SubSeq(BuiltinModules, 1, Least(MaxBuiltins, Len(BuiltinModules)))
PackageSet == {Packages[i] : i \in 1..Len(Packages)}
Modules == PackageSet \cup {Builtins[i] : i \in 1..Len(Builtins)}

\* _get_cache_key(operation, data): the md5 of the two, one key per pair
get_cache_key(operation, name, base_env) ==
    [op |-> operation, name |-> name, base |-> base_env]
\* the key of _is_module_available(module_name, base_env)
check_key(m, b) == get_cache_key("module_check", m, b)
\* the key of _install_module(module_name, version)
install_key(m) == get_cache_key("module_install", m, FALSE)
\* the key of _create_virtual_env
venv_key == get_cache_key("venv_creation", "env_path", FALSE)
CheckKeys == {check_key(m, TRUE) : m \in Modules} \cup {check_key(m, FALSE) : m \in PackageSet}
CacheKeys == CheckKeys \cup {install_key(m) : m \in PackageSet} \cup {venv_key}

\* self.cache_data[cache_key] = value
store(c, k, v) == [q \in DOMAIN c \cup {k} |-> IF q = k THEN v ELSE c[q]]
\* a cache that answers only with a stored True
cache_hit_positive(c, k) == k \in DOMAIN c /\ c[k]
\* if cache_key in self.cache_data
cache_hit(c, k) == k \in DOMAIN c

\* What a probe can do: give its answer, which is stored and saved ("ok");
\* raise (the import itself fails, the venv python cannot be run); or give
\* its answer, which is stored, and then _save_cache raises.
Outcomes == {"ok", "raises", "save_raises"}
\* _is_module_available(module_name, base_env), `actual` being what the probe
\* finds: the cache after the call, the value returned, whether it probed
is_module_available(c, m, b, actual, outcome) ==
    IF cache_hit(c, check_key(m, b))
    THEN [cache |-> c, value |-> c[check_key(m, b)], probed |-> FALSE]
    ELSE IF outcome = "raises"
         THEN [cache |-> c, value |-> FALSE, probed |-> TRUE]
         ELSE [cache |-> store(c, check_key(m, b), actual),
               value |-> (outcome = "ok" /\ actual), probed |-> TRUE]

NoCall == [key |-> check_key("", TRUE), value |-> FALSE]
\* what a verification returned, as the text print would show
repr(v) == IF v THEN "True" ELSE "False"

(***************************************************************************)
(* The state after construction: HighTechWebtoonDownloader.__init__ and the *)
(* arguments of main_download_process.  The output tree may hold image      *)
(* files of an earlier run, valid or corrupt.                               *)
(***************************************************************************)
\* An earlier run over the same range left at most MaxPreFiles image files,
\* of an index up to MaxPreStem,
\* each above the threshold, at it or empty (corrupt); nothing else is below
\* full_path.
PreFiles == {PreFile(n) : n \in PreSizes}
PrePaths(s, e) == {p \in RelPaths : /\ p.suffix = "jpg" /\ p.stem <= MaxPreStem
                                    /\ p.ep \in s..e /\ p.ep \in EpisodeArgs}
InitialFs(s, e) ==
    UNION {[Q -> PreFiles] :
              Q \in {R \in SUBSET PrePaths(s, e) : Cardinality(R) <= MaxPreFiles}}

DownloadInit ==
    /\ comic_id \in ComicIds
    /\ start \in EpisodeArgs
    /\ end \in EpisodeArgs
    /\ os_name = Unobserved
    /\ phase = "title"
    /\ full_path = NoTitle
    /\ responses = <<>>
    /\ arrival = <<>>
    /\ dl = <<>>
    /\ sp = <<>>
    /\ fs \in InitialFs(start, end)
    /\ dirs = {p.ep : p \in DOMAIN fs}
    /\ pc = <<>>
    /\ attempt = <<>>
    /\ result = <<>>
    /\ session_stats = [images_downloaded |-> 0, images_skipped |-> 0,
                        failed_downloads |-> 0]
    /\ reported = NotReported
    /\ fs0 = fs
    /\ fetched = [e \in EpisodeNos |-> 0]
    /\ gets = <<>>
    /\ waits = <<>>
    /\ last = <<>>
    /\ served = <<>>

\* The download runs after setup_environment has returned, or without it
\* (--skip-env-setup): nothing of the environment manager moves any more.
EnvSettled ==
    /\ env_pc = "done"
    /\ idx = 1
    /\ cache_data = <<>>
    /\ missing_external = <<>>
    /\ base_has = [m \in Modules |-> TRUE]
    /\ venv_exists = FALSE
    /\ venv_has = [m \in PackageSet |-> FALSE]
    /\ first_check = [m \in PackageSet |-> "none"]
    /\ retry_check = [m \in PackageSet |-> "none"]
    /\ calls = [k \in CheckKeys |-> 0]
    /\ probes = [k \in CheckKeys |-> 0]
    /\ ret = NoCall

Init == DownloadInit /\ EnvSettled

task_vars == <<pc, attempt, result, gets, waits, last, served>>
discovery_vars == <<responses, arrival, dl, sp, fetched>>
run_args == <<comic_id, start, end, os_name, fs0>>

(***************************************************************************)
(* main_download_process up to the first await: the title lookup, the main  *)
(* folder, and the fan-out of the page fetches in extract_episode_data.     *)
(***************************************************************************)
\* the user's end handed on unchanged: range() then leaves it out
extract_end_exclusive(e) == e
\* the `end` main_download_process hands to extract_episode_data
extract_end(e) == e + 1
\* the episode numbers of urls, and of the loop's range(start, end)
episode_list(s, e) == range_list(s, extract_end(e))

GetComicTitle ==
    /\ phase = "title"
    /\ \E r \in ListingResponses :
        LET t == get_comic_title(comic_id, r) IN
        IF t.raises
        THEN /\ phase' = "crashed"
             /\ UNCHANGED <<full_path, responses, fetched>>
        ELSE /\ phase' = "discover"
             /\ full_path' = t.title
             /\ responses' = [i \in 1..Len(episode_list(start, end)) |-> Pending]
             /\ fetched' = [e \in EpisodeNos |->
                    fetched[e] + Cardinality({i \in 1..Len(episode_list(start, end)) :
                                                episode_list(start, end)[i] = e})]
    /\ UNCHANGED <<env_vars, run_args, arrival, dl, sp, fs, dirs, task_vars, session_stats, reported>>

\* images already found in the slots that have been filled
found_so_far == LET n[i \in 0..Len(responses)] ==
                        IF i = 0 THEN 0 ELSE n[i - 1] + Len(img_links(responses[i]))
                IN n[Len(responses)]

\* One page fetch completes: fetch_url returns into its gather slot.
FetchUrlReturns(i) ==
    /\ phase = "discover"
    /\ responses[i] = Pending
    /\ \E r \in PageResponses :
        /\ found_so_far + Len(img_links(fetch_url(r))) <= MaxTasks
        /\ responses' = [responses EXCEPT ![i] = fetch_url(r)]
    /\ arrival' = Append(arrival, i)
    /\ UNCHANGED <<env_vars, run_args, phase, full_path, dl, sp, fs, dirs, fetched,
                   task_vars, session_stats, reported>>

Min(a, b) == IF a <= b THEN a ELSE b

\* a join that returns with the first page to arrive
first_page_gathered == \E i \in 1..Len(responses) : responses[i] # Pending
\* await asyncio.gather(...) over the page fetches returns: every fetch_url
\* has returned
pages_gathered == \A i \in 1..Len(responses) : responses[i] # Pending

\* gather has returned: the loop of extract_episode_data builds dl and sp and
\* creates the episode folders; then download_all_images creates one task
\* for every pair of zip(self.dl, self.sp).
ExtractEpisodes ==
    /\ phase = "discover"
    /\ pages_gathered
    /\ LET acc == extract_loop(full_path, episode_list(start, end),
                               gather(responses, arrival), 1,
                               [dl |-> dl, sp |-> sp, dirs |-> {}])
           n == Min(Len(acc.dl), Len(acc.sp))
       IN /\ dl' = acc.dl
          /\ sp' = acc.sp
          /\ dirs' = dirs \cup acc.dirs
          /\ pc' = [t \in 1..n |-> "start"]
          /\ attempt' = [t \in 1..n |-> 0]
          /\ result' = [t \in 1..n |-> "none"]
          /\ gets' = [t \in 1..n |-> 0]
          /\ waits' = [t \in 1..n |-> <<>>]
          /\ last' = [t \in 1..n |-> NoBody]
          /\ served' = [t \in 1..n |-> FALSE]
    /\ phase' = "download"
    /\ responses' = <<>>
    /\ arrival' = <<>>
    /\ UNCHANGED <<env_vars, run_args, full_path, fs, fetched, session_stats, reported>>

(***************************************************************************)
(* fetch_download_image, one coroutine per task t.                          *)
(***************************************************************************)
Tasks == 1..Len(pc)
file_path(t) == Rel(sp[t])
\* the body written straight to the destination
temp_path_direct(t) == Rel(sp[t])
temp_path(t) == Rel(with_suffix(sp[t], "tmp"))

\* an existence check with the threshold in the wrong unit
already_downloaded_kib(f) == f # NoFile /\ f.size > ExistsThreshold * 1024
\* the existence check: file_path.exists() and file_size > 1024
already_downloaded(f) == f # NoFile /\ f.size > ExistsThreshold
\* a validation that lets every body through
size_ok_any(f) == TRUE
\* a validation that accepts a body of exactly the threshold
size_ok_inclusive(f) == f.size >= ValidThreshold
\* the validation of the written temp file: temp_path.stat().st_size > 1024
size_ok(f) == f.size > ValidThreshold
\* a backoff that grows linearly
wait_time_linear(a) == BackoffBase * a
\* wait_time = 2 ** attempt
wait_time(a) == Pow(BackoffBase, a)
\* an assignment in place of the increment
incremented_assign(stats, key) == [stats EXCEPT ![key] = 1]
\* self.session_stats[key] += 1
incremented(stats, key) == [stats EXCEPT ![key] = @ + 1]
\* the counter a finished download adds to, and the one a skip adds to
downloaded_key == "images_downloaded"
\* a skip counted under its own name
skipped_key_named == "images_skipped"
skipped_key == "images_downloaded"
failed_key_wrong == "images_skipped"
failed_key == "failed_downloads"

\* The end of a failed iteration: attempt += 1, then either the backoff sleep
\* or, with the attempts used up, the failure exit after the loop.
attempt_failed(t) ==
    /\ attempt' = [attempt EXCEPT ![t] = @ + 1]
    /\ IF attempt[t] + 1 < max_retries
       THEN /\ waits' = [waits EXCEPT ![t] = Append(@, wait_time(attempt[t] + 1))]
            /\ pc' = [pc EXCEPT ![t] = "sleep"]
            /\ UNCHANGED <<session_stats, result>>
       ELSE /\ session_stats' = incremented(session_stats, failed_key)
            /\ pc' = [pc EXCEPT ![t] = "done"]
            /\ result' = [result EXCEPT ![t] = "False"]
            /\ UNCHANGED waits

\* The task's first step: the existence check, then either the skip or the
\* first GET of the attempt loop.
StartTask(t) ==
    /\ phase = "download"
    /\ pc[t] = "start"
    /\ IF already_downloaded(stat(fs, file_path(t)))
       THEN /\ session_stats' = incremented(session_stats, skipped_key)
            /\ pc' = [pc EXCEPT ![t] = "done"]
            /\ result' = [result EXCEPT ![t] = "True"]
            /\ UNCHANGED gets
       ELSE \* attempt = 0 < max_retries: the loop is entered and the GET issued
            /\ pc' = [pc EXCEPT ![t] = "get"]
            /\ gets' = [gets EXCEPT ![t] = @ + 1]
            /\ UNCHANGED <<session_stats, result>>
    /\ UNCHANGED <<env_vars, run_args, phase, full_path, discovery_vars, fs, dirs, attempt,
                   waits, last, served, reported>>

\* client.get raises (a transport error): caught by `except Exception`.
GetRaises(t) ==
    /\ phase = "download"
    /\ pc[t] = "get"
    /\ attempt_failed(t)
    /\ UNCHANGED <<env_vars, run_args, phase, full_path, discovery_vars, fs, dirs, gets,
                   last, served, reported>>

\* client.get returns a response: on status 200 the task awaits the body,
\* on another status the iteration has failed.
GetResponds(t) ==
    /\ phase = "download"
    /\ pc[t] = "get"
    /\ \E status \in {HTTP_OK, 404} :
        IF status = HTTP_OK
        THEN /\ pc' = [pc EXCEPT ![t] = "read"]
             /\ UNCHANGED <<attempt, waits, session_stats, result>>
        ELSE attempt_failed(t)
    /\ UNCHANGED <<env_vars, run_args, phase, full_path, discovery_vars, fs, dirs, gets,
                   last, served, reported>>

\* response.read() raises: the transfer broke off.
ReadRaises(t) ==
    /\ phase = "download"
    /\ pc[t] = "read"
    /\ attempt_failed(t)
    /\ UNCHANGED <<env_vars, run_args, phase, full_path, discovery_vars, fs, dirs, gets,
                   last, served, reported>>

\* what a write that raises leaves in the temp file: open() has created it
\* and no byte of a non-empty body has reached it
PartialSizes(n) == {k \in {0} : k < n}

\* the platforms this run can still be on
Platforms == IF os_name = Unobserved THEN OsNames ELSE {os_name}
\* Path.rename raises FileExistsError on Windows when the target exists; on a
\* Unix-like system it replaces the target
rename_raises(os, f, dst) == os = "nt" /\ stat(f, dst) # NoFile

\* The filesystem after each filesystem step of an attempt of task t that read
\* a body of n bytes: opened_fs, written_fs, settled_fs.
\* open(temp_path, 'wb'): the temp file is there, empty
opened_fs(f, t) == write(f, temp_path(t), Partial(0))
\* with open(temp_path, 'wb') as f: f.write(image), completed
written_fs(f, t, n) == write(f, temp_path(t), Body(n))
\* does this attempt reach temp_path.rename(file_path)
valid_body(t, n) == size_ok(stat(written_fs(fs, t, n), temp_path(t)))
\* an undersized temp file left where it is
settled_fs_keep(f, t, n, os) ==
    IF size_ok(stat(written_fs(f, t, n), temp_path(t)))
    THEN IF rename_raises(os, written_fs(f, t, n), file_path(t))
         THEN written_fs(f, t, n)
         ELSE rename(written_fs(f, t, n), temp_path(t), file_path(t))
    ELSE written_fs(f, t, n)
\* after the size check: temp_path.rename(file_path), which may raise, or
\* temp_path.unlink()
settled_fs(f, t, n, os) ==
    IF size_ok(stat(written_fs(f, t, n), temp_path(t)))
    THEN IF rename_raises(os, written_fs(f, t, n), file_path(t))
         THEN written_fs(f, t, n)
         ELSE rename(written_fs(f, t, n), temp_path(t), file_path(t))
    ELSE unlink(written_fs(f, t, n), temp_path(t))
\* response.read() returns a body of n bytes: mkdir, write to the temp file,
\* check its size, then rename it to the destination or unlink it.  A rename
\* that raises is caught by `except Exception` and leaves the temp file.
ReadReturns(t) ==
    /\ phase = "download"
    /\ pc[t] = "read"
    /\ \E n \in BodySizes :
        LET onto_existing == valid_body(t, n) /\ stat(fs, file_path(t)) # NoFile IN
        \E os \in (IF onto_existing THEN Platforms ELSE {os_name}) :
        LET renamed == valid_body(t, n)
                          /\ ~rename_raises(os, written_fs(fs, t, n), file_path(t))
        IN
        /\ os_name' = os
        /\ last' = [last EXCEPT ![t] = n]
        /\ dirs' = dirs \cup {parent(sp[t])}
        /\ fs' = settled_fs(fs, t, n, os)
        /\ IF renamed
           THEN /\ session_stats' = incremented(session_stats, downloaded_key)
                /\ pc' = [pc EXCEPT ![t] = "done"]
                /\ result' = [result EXCEPT ![t] = "True"]
                /\ UNCHANGED <<attempt, waits>>
           ELSE attempt_failed(t)
        /\ served' = [served EXCEPT ![t] = @ \/ renamed]
    /\ UNCHANGED <<env_vars, comic_id, start, end, fs0, phase, full_path, discovery_vars, gets,
                   reported>>

\* mkdir, open or write raises OSError: caught by `except Exception`.  A write
\* that raises leaves a partly written temp file behind.
WriteFails(t) ==
    /\ phase = "download"
    /\ pc[t] = "read"
    /\ \E n \in BodySizes :
        \/ UNCHANGED <<fs, dirs>>
        \/ \E k \in PartialSizes(n) :
             /\ fs' = write(fs, temp_path(t), Partial(k))
             /\ dirs' = dirs \cup {parent(sp[t])}
    /\ attempt_failed(t)
    /\ UNCHANGED <<env_vars, run_args, phase, full_path, discovery_vars, gets, last, served, reported>>

\* asyncio.sleep(wait_time) is over: the loop condition holds (the sleep is
\* taken only with attempt < max_retries), and the next GET is issued.
WakeUp(t) ==
    /\ phase = "download"
    /\ pc[t] = "sleep"
    /\ attempt[t] < max_retries
    /\ pc' = [pc EXCEPT ![t] = "get"]
    /\ gets' = [gets EXCEPT ![t] = @ + 1]
    /\ last' = [last EXCEPT ![t] = NoBody]
    /\ UNCHANGED <<env_vars, run_args, phase, full_path, discovery_vars, fs, dirs, attempt,
                   result, waits, served, session_stats, reported>>

(***************************************************************************)
(* download_all_images returns when gather has every task's result; then    *)
(* main_download_process calls print_stats.                                 *)
(***************************************************************************)
\* a join that returns with the first task to finish
first_done == \E t \in Tasks : pc[t] = "done"
all_done == \A t \in Tasks : pc[t] = "done"

print_stats(stats) ==
    [images_downloaded |-> stats.images_downloaded,
     images_skipped |-> stats.images_skipped,
     failed_downloads |-> stats.failed_downloads,
     total_processed |-> stats.images_downloaded + stats.failed_downloads]

Finish ==
    /\ phase = "download"
    /\ all_done
    /\ reported' = print_stats(session_stats)
    /\ phase' = "finished"
    /\ UNCHANGED <<env_vars, run_args, full_path, discovery_vars, fs, dirs, task_vars, session_stats>>

\* main: the exit status of the process.  asyncio.run returns, main returns
\* and the interpreter exits with 0; an exception that main re-raises ends it
\* with a traceback and status 1.
NotExited == -1
exit_status == CASE phase = "finished" -> 0
                 [] phase = "crashed" -> 1
                 [] OTHER -> NotExited

Next ==
    \/ GetComicTitle
    \/ \E i \in 1..Len(responses) : FetchUrlReturns(i)
    \/ ExtractEpisodes
    \/ \E t \in Tasks : StartTask(t)
    \/ \E t \in Tasks : GetRaises(t)
    \/ \E t \in Tasks : GetResponds(t)
    \/ \E t \in Tasks : ReadRaises(t)
    \/ \E t \in Tasks : ReadReturns(t)
    \/ \E t \in Tasks : WriteFails(t)
    \/ \E t \in Tasks : WakeUp(t)
    \/ Finish

Spec == Init /\ [][Next]_vars

(***************************************************************************)
(* Fairness: the event loop runs every ready coroutine, every sleep ends,    *)
(* and every request that was issued gets its answer or its exception.      *)
(***************************************************************************)
TaskStep(t) ==
    /\ t \in Tasks
    /\ \/ StartTask(t) \/ GetRaises(t) \/ GetResponds(t) \/ ReadRaises(t)
       \/ ReadReturns(t) \/ WriteFails(t) \/ WakeUp(t)

Fairness ==
    /\ \A t \in 1..MaxTasks : WF_vars(TaskStep(t))
    /\ WF_vars(Finish)


\* The specification of the liveness claim: the same actions under this
\* fairness, from the runs over one episode (start = end).
InitOneEpisode == Init /\ start = end
FairSpecOneEpisode == InitOneEpisode /\ [][Next]_vars /\ Fairness

(***************************************************************************)
(* setup_environment, which main runs before the download unless            *)
(* --skip-env-setup is given.  It is synchronous code; what it sees of the  *)
(* base environment, of the virtual environment and of the cache file is    *)
(* the environment's choice.                                                *)
(***************************************************************************)
\* _load_cache: what cache.txt held, written by earlier runs: at most
\* MaxCached entries, a check key with the result stored then, an install or
\* venv key with True
CachedValues(k) == IF k.op = "module_check" THEN BOOLEAN ELSE {TRUE}
InitialCaches ==
    UNION {{c \in [Q -> BOOLEAN] : \A k \in Q : c[k] \in CachedValues(k)} :
              Q \in {R \in SUBSET CacheKeys : Cardinality(R) <= MaxCached}}

\* SmartEnvironmentManager.__init__, and the environment it runs in
EnvStart ==
    /\ env_pc = "analyze"
    /\ idx = 1
    /\ cache_data \in InitialCaches
    /\ missing_external = <<>>
    /\ base_has \in [Modules -> BOOLEAN]
    /\ venv_exists \in BOOLEAN
    /\ venv_has \in [PackageSet -> BOOLEAN]
    /\ ~venv_exists => venv_has = [m \in PackageSet |-> FALSE]
    /\ first_check = [m \in PackageSet |-> "none"]
    /\ retry_check = [m \in PackageSet |-> "none"]
    /\ calls = [k \in CheckKeys |-> 0]
    /\ probes = [k \in CheckKeys |-> 0]
    /\ ret = NoCall

\* the download has not begun: one run of it, untouched
DownloadNotStarted == DownloadInit /\ start = 1 /\ end = 1 /\ fs = <<>>

EnvInit == EnvStart /\ DownloadNotStarted

\* the bookkeeping of one call of _is_module_available(m, b) that gave r
Call(m, b, r) ==
    /\ cache_data' = r.cache
    /\ calls' = [calls EXCEPT ![check_key(m, b)] = @ + 1]
    /\ probes' = [probes EXCEPT ![check_key(m, b)] = @ + (IF r.probed THEN 1 ELSE 0)]
    /\ ret' = [key |-> check_key(m, b), value |-> r.value]

\* the modules analyze_required_modules checks, in its order
AnalysisOrder == Packages \o Builtins

\* analyze_required_modules, one module of its two loops: the check in the
\* base environment; an external package that is not available goes to
\* missing_external.  After the last module setup_environment goes on to the
\* virtual environment, or returns when nothing is missing.
AnalyzeModule ==
    /\ env_pc = "analyze"
    /\ \E o \in Outcomes :
        LET m == AnalysisOrder[idx]
            r == is_module_available(cache_data, m, TRUE, base_has[m], o)
            missing == IF m \in PackageSet /\ ~r.value
                       THEN Append(missing_external, m) ELSE missing_external
        IN /\ Call(m, TRUE, r)
           /\ missing_external' = missing
           /\ IF idx < Len(AnalysisOrder)
              THEN idx' = idx + 1 /\ env_pc' = "analyze"
              ELSE idx' = 1 /\ env_pc' = (IF missing = <<>> THEN "done" ELSE "create_venv")
    /\ UNCHANGED <<base_has, venv_exists, venv_has, first_check, retry_check, download_vars>>

\* _create_virtual_env: nothing to do with the key cached and the folder
\* there; else venv.create, which may raise, and setup_environment with it.
CreateVirtualEnv ==
    /\ env_pc = "create_venv"
    /\ IF venv_key \in DOMAIN cache_data /\ venv_exists
       THEN /\ env_pc' = "install"
            /\ UNCHANGED <<cache_data, venv_exists>>
       ELSE \E created \in BOOLEAN :
              IF created
              THEN /\ cache_data' = store(cache_data, venv_key, TRUE)
                   /\ venv_exists' = TRUE
                   /\ env_pc' = "install"
              ELSE /\ env_pc' = "raised"
                   /\ UNCHANGED <<cache_data, venv_exists>>
    /\ UNCHANGED <<idx, missing_external, base_has, venv_has, first_check, retry_check,
                   calls, probes, ret, download_vars>>

\* _install_module for the package at idx: skipped with its key cached; else
\* pip install, which raises CalledProcessError (and setup_environment with
\* it) or succeeds, the package then importing in the venv or not.
InstallModule ==
    /\ env_pc = "install"
    /\ LET m == missing_external[idx] IN
       IF install_key(m) \in DOMAIN cache_data
       THEN /\ env_pc' = "verify"
            /\ UNCHANGED <<cache_data, venv_has>>
       ELSE \E installed \in BOOLEAN, works \in BOOLEAN :
              IF installed
              THEN /\ cache_data' = store(cache_data, install_key(m), TRUE)
                   /\ venv_has' = [venv_has EXCEPT ![m] = works]
                   /\ env_pc' = "verify"
              ELSE /\ env_pc' = "raised"
                   /\ UNCHANGED <<cache_data, venv_has>>
    /\ UNCHANGED <<idx, missing_external, base_has, venv_exists, first_check, retry_check,
                   calls, probes, ret, download_vars>>

\* the loop of setup_environment goes to the next missing package, or ends
NextPackage ==
    IF idx < Len(missing_external)
    THEN idx' = idx + 1 /\ env_pc' = "install"
    ELSE idx' = idx /\ env_pc' = "done"

\* the verification after the install: _is_module_available(m, base_env=False)
VerifyInstall ==
    /\ env_pc = "verify"
    /\ \E o \in Outcomes :
        LET m == missing_external[idx]
            r == is_module_available(cache_data, m, FALSE, venv_has[m], o)
        IN /\ Call(m, FALSE, r)
           /\ first_check' = [first_check EXCEPT ![m] = repr(r.value)]
           /\ IF r.value
              THEN NextPackage
              ELSE idx' = idx /\ env_pc' = "retry"
    /\ UNCHANGED <<missing_external, base_has, venv_exists, venv_has, retry_check,
                   download_vars>>

\* after time.sleep(2): the retried verification
RetryVerify ==
    /\ env_pc = "retry"
    /\ \E o \in Outcomes :
        LET m == missing_external[idx]
            r == is_module_available(cache_data, m, FALSE, venv_has[m], o)
        IN /\ Call(m, FALSE, r)
           /\ retry_check' = [retry_check EXCEPT ![m] = repr(r.value)]
           /\ NextPackage
    /\ UNCHANGED <<missing_external, base_has, venv_exists, venv_has, first_check,
                   download_vars>>

\* during time.sleep(1) and time.sleep(2) the virtual environment changes
\* under the program: the package being verified starts or stops importing
VenvChanges ==
    /\ env_pc \in {"verify", "retry"}
    /\ venv_has' = [venv_has EXCEPT ![missing_external[idx]] = ~@]
    /\ UNCHANGED <<env_pc, idx, cache_data, missing_external, base_has, venv_exists,
                   first_check, retry_check, calls, probes, ret, download_vars>>

EnvNext ==
    \/ AnalyzeModule
    \/ CreateVirtualEnv
    \/ InstallModule
    \/ VerifyInstall
    \/ RetryVerify
    \/ VenvChanges

EnvSpec == EnvInit /\ [][EnvNext]_vars

(***************************************************************************)
(* The claims.                                                              *)
(***************************************************************************)
\* the destination of task t held a file of more than 1024 bytes before the run
ValidBefore(t) == stat(fs0, file_path(t)) # NoFile /\ stat(fs0, file_path(t)).size > 1024
\* the destination of task t held a file of at most 1024 bytes before the run
CorruptBefore(t) == stat(fs0, file_path(t)) # NoFile /\ stat(fs0, file_path(t)).size <= 1024
Terminated == {t \in Tasks : pc[t] = "done"}
RECURSIVE SumOver(_, _)
SumOver(f, S) == IF S = {} THEN 0
                 ELSE LET x == CHOOSE y \in S : TRUE IN f[x] + SumOver(f, S \ {x})

\* C1: a task whose destination holds no valid file and whose every attempt
\* fails issues exactly 5 GETs, sleeps 2, 4, 8 and 16 after attempts 1 to 4,
\* does not sleep after the 5th, never issues a 6th, and is then done with the
\* result False, in the very step in which its 5th attempt fails.
C1_RetryBound ==
    \A t \in Tasks :
        /\ gets[t] <= 5
        /\ Len(waits[t]) <= 4
        /\ \A i \in 1..Len(waits[t]) : waits[t][i] = <<2, 4, 8, 16>>[i]
        \* the k-th sleep follows the k-th failed attempt
        /\ pc[t] = "sleep" => Len(waits[t]) = gets[t]
        /\ pc[t] \in {"get", "read"} => Len(waits[t]) = gets[t] - 1
        \* the attempts used up: done and failed at once, after 4 sleeps
        /\ attempt[t] >= 5 => pc[t] = "done" /\ result[t] = "False"
        /\ result[t] = "False" =>
              /\ pc[t] = "done"
              /\ gets[t] = 5
              /\ waits[t] = <<2, 4, 8, 16>>
        \* a task that ends without having accepted a body or skipped has failed
        /\ (pc[t] = "done" /\ ~ValidBefore(t) /\ ~served[t]) => result[t] = "False"

C1_Witness ==
    \E t \in Tasks : /\ pc[t] = "done" /\ result[t] = "False" /\ ~ValidBefore(t)
                     /\ gets[t] = 5 /\ waits[t] = <<2, 4, 8, 16>>

\* C2: a task whose destination holds a file of more than 1024 bytes when it
\* starts issues no GET, returns True and leaves the file as it was; a run
\* whose tasks are all in that state issues no image GET at all.
C2_IdempotentRerun ==
    /\ \A t \in Tasks :
          ValidBefore(t) =>
              /\ gets[t] = 0
              /\ pc[t] \in {"start", "done"}
              /\ pc[t] = "done" => result[t] = "True"
              /\ stat(fs, file_path(t)) = stat(fs0, file_path(t))
              /\ stat(fs, temp_path(t)) = NoFile
    /\ (\A t \in Tasks : ValidBefore(t)) => SumOver(gets, Tasks) = 0

C2_Witness ==
    /\ phase = "finished"
    /\ Tasks # {}
    /\ \A t \in Tasks : ValidBefore(t) /\ result[t] = "True" /\ gets[t] = 0

\* C3 as claimed: after a task has terminated, a failed download has left no
\* file at the destination, and a file that is there is a completely written
\* body of more than 1024 bytes, whatever was at the destination before.
C3_AsClaimed ==
    \A t \in Tasks :
        pc[t] = "done" =>
            /\ result[t] = "False" => stat(fs, file_path(t)) = NoFile
            /\ stat(fs, file_path(t)) # NoFile =>
                  stat(fs, file_path(t)).whole /\ stat(fs, file_path(t)).size > 1024

\* C3 (amended): a download whose attempts fail never creates or changes the
\* file at the destination: the destination is then exactly as before the run
\* (absent, or the old file of at most 1024 bytes).  Whenever the destination
\* differs from what it was before the run, it holds a completely written
\* response body of more than 1024 bytes and the task has succeeded.
C3_Atomicity ==
    \A t \in Tasks :
        /\ result[t] = "False" =>
              /\ stat(fs, file_path(t)) = stat(fs0, file_path(t))
              /\ ~ValidBefore(t)
        /\ stat(fs, file_path(t)) # stat(fs0, file_path(t)) =>
              /\ stat(fs, file_path(t)).whole
              /\ stat(fs, file_path(t)).origin = "net"
              /\ stat(fs, file_path(t)).size > 1024
              /\ result[t] = "True"
        /\ result[t] # "True" => stat(fs, file_path(t)) = stat(fs0, file_path(t))

C3_Witness ==
    \E t \in Tasks : /\ pc[t] = "done" /\ result[t] = "False"
                     /\ CorruptBefore(t)
                     /\ stat(fs, file_path(t)) = stat(fs0, file_path(t))
                     /\ \E u \in Tasks : /\ result[u] = "False"
                                         /\ stat(fs0, file_path(u)) = NoFile
                                         /\ stat(fs, file_path(u)) = NoFile

AlwaysFailing == {t \in Tasks : ~served[t] /\ ~ValidBefore(t)}

\* C5: when the run has completed, with F the tasks whose every attempt
\* failed: images_downloaded = N - |F|, failed_downloads = |F|, every task
\* outside F has its file at the destination with more than 1024 bytes, and
\* every task, failing or not, has run to its own end: a task of F made its 5
\* attempts, a task outside F returned True.
C5_PartialFailureIsolation ==
    phase = "finished" =>
        /\ \A t \in Tasks : pc[t] = "done"
        /\ session_stats.images_downloaded = Len(pc) - Cardinality(AlwaysFailing)
        /\ session_stats.failed_downloads = Cardinality(AlwaysFailing)
        /\ reported.images_downloaded = Len(pc) - Cardinality(AlwaysFailing)
        /\ reported.failed_downloads = Cardinality(AlwaysFailing)
        /\ \A t \in Tasks \ AlwaysFailing :
              /\ result[t] = "True"
              /\ stat(fs, file_path(t)) # NoFile
              /\ stat(fs, file_path(t)).size > 1024
        /\ \A t \in AlwaysFailing : result[t] = "False" /\ gets[t] = 5

C5_Witness ==
    /\ phase = "finished"
    /\ Len(pc) = 2
    /\ Cardinality(AlwaysFailing) = 1
    /\ session_stats.images_downloaded = 1
    /\ session_stats.failed_downloads = 1
    /\ \E t \in Tasks : served[t] /\ gets[t] > 1

\* C6: the download phase is over (and the statistics are printed) only when
\* every task has a terminal outcome; and, every issued request being
\* answered, every task of a started download phase reaches a terminal
\* outcome and the phase completes.
C6_Completion ==
    /\ [](phase = "finished" =>
            /\ reported # NotReported
            /\ \A t \in Tasks : pc[t] = "done" /\ result[t] \in {"True", "False"})
    /\ [](reported # NotReported => \A t \in Tasks : pc[t] = "done")
    /\ \A t \in 1..MaxTasks :
          (phase = "download" /\ t \in Tasks) ~> (t \in Tasks /\ pc[t] = "done")
    /\ (phase = "download") ~> (phase = "finished")

C6_Witness ==
    /\ phase = "finished"
    /\ Len(pc) = 2
    /\ \E t \in Tasks : result[t] = "False"
    /\ \E t \in Tasks : result[t] = "True" /\ gets[t] = 0
    /\ reported # NotReported

\* C7: in every state the three counters add up to the number of tasks that
\* have terminated (so each task has counted exactly once, at its terminal
\* outcome, and no increment was lost), each counter holding the number of
\* terminated tasks with its outcome; at completion the sum is the number of
\* tasks.
C7_StatsAccounting ==
    /\ session_stats.images_downloaded + session_stats.images_skipped
          + session_stats.failed_downloads = Cardinality(Terminated)
    /\ session_stats.images_downloaded + session_stats.images_skipped
          = Cardinality({t \in Tasks : result[t] = "True"})
    /\ session_stats.failed_downloads = Cardinality({t \in Tasks : result[t] = "False"})
    /\ \A t \in Tasks : pc[t] = "done" <=> result[t] # "none"
    /\ phase = "finished" =>
          session_stats.images_downloaded + session_stats.images_skipped
              + session_stats.failed_downloads = Len(pc)

C7_Witness ==
    /\ phase = "download"
    /\ Len(pc) = 2
    /\ session_stats.images_downloaded = 1
    /\ session_stats.failed_downloads = 1
    /\ \A t \in Tasks : gets[t] >= 2

\* the tasks of episode e in a task list: the positions of sp with that episode
PositionsOf(paths, e) == {j \in 1..Len(paths) : paths[j].ep = e}
\* the usable image URLs of a page, in document order
RECURSIVE Usable(_)
Usable(imgs) == IF imgs = <<>> THEN <<>>
                ELSE IF Head(imgs) = NoSrc \/ Head(imgs) = ""
                     THEN Usable(Tail(imgs))
                     ELSE <<Head(imgs)>> \o Usable(Tail(imgs))

\* C8: when discovery ends, for every episode of the range, with [u0..u(n-1)]
\* the image list of its page (empty when the fetch failed or the container
\* is missing): the tasks of that episode are exactly (u_k, root/episode/k.jpg)
\* for k = 0..n-1, contiguous and in that order, the k-th URL paired with the
\* k-th path, the two lists equally long and the episodes ascending, in
\* whatever order the page fetches completed.
C8_NamingDeterminism ==
    [][(phase = "discover" /\ phase' = "download") =>
        /\ Len(dl') = Len(sp')
        /\ Len(pc') = Len(dl')
        /\ \A j \in 1..Len(sp') : sp'[j].ep \in start..end
        /\ \A j \in 1..(Len(sp') - 1) : sp'[j].ep <= sp'[j + 1].ep
        /\ \A i \in 1..Len(responses) :
              LET e == start + i - 1
                  page == responses[i]
                  urls == IF page.kind = "text" /\ page.container
                          THEN Usable(page.imgs) ELSE <<>>
                  pos == PositionsOf(sp', e)
              IN /\ Cardinality(pos) = Len(urls)
                 /\ \A j \in pos :
                       LET k == Cardinality({x \in pos : x < j})
                       IN /\ dl'[j] = urls[k + 1]
                          /\ sp'[j] = [root |-> full_path, ep |-> e,
                                       stem |-> k, suffix |-> "jpg"]
      ]_vars

C8_Witness ==
    /\ phase = "download"
    /\ Len(dl) = 2
    /\ dl = <<"b", "a">>
    /\ sp = <<[root |-> full_path, ep |-> 1, stem |-> 0, suffix |-> "jpg"],
              [root |-> full_path, ep |-> 2, stem |-> 0, suffix |-> "jpg"]>>

\* C9: on a run with start <= end that got past the title lookup, the page of
\* every episode number in [start, end], end included, has been requested
\* exactly once and no other episode number has been requested; before that
\* no page has been requested.
C9_InclusiveRange ==
    /\ phase \in {"title", "crashed"} => \A e \in EpisodeNos : fetched[e] = 0
    /\ (phase \in {"discover", "download", "finished"} /\ start <= end) =>
          \A e \in EpisodeNos :
              fetched[e] = IF start <= e /\ e <= end THEN 1 ELSE 0
    /\ (phase = "discover" /\ start <= end) => Len(responses) = end - start + 1

C9_Witness ==
    /\ phase = "finished"
    /\ start < end
    /\ fetched[end] = 1
    /\ \E j \in 1..Len(sp) : sp[j].ep = end

\* C10: whatever the single listing-page fetch does (the request raises, the
\* status is not 200, the page has no og:title, the og:title element has no
\* content), get_comic_title returns instead of raising and the run goes on
\* to discovery with a title: the run never ends in the title lookup.
C10_TitleNeverBlocks ==
    /\ phase # "crashed"
    /\ phase \in {"discover", "download", "finished"} => full_path # NoTitle

\* the sequence q without the positions of B
RECURSIVE Without(_, _, _)
Without(q, B, i) == IF i > Len(q) THEN <<>>
                    ELSE (IF i \in B THEN <<>> ELSE <<q[i]>>) \o Without(q, B, i + 1)
\* the slots whose page fetch failed (fetch_url gave None) or whose page has
\* no container
Degraded == {i \in 1..Len(responses) :
                responses[i].kind # "text" \/ ~responses[i].container}

\* C11: when discovery ends it ends without an error, in the download phase;
\* an episode whose page fetch failed (exception or non-200 status) or whose
\* page lacks the container has no task; and the lists of URLs and paths are
\* exactly those discovery builds from the other episodes alone, the degraded
\* episodes taken out of the range.
C11_GracefulDiscovery ==
    [][(phase = "discover" /\ phase' # phase) =>
        LET eps == [i \in 1..Len(responses) |-> start + i - 1]
            others == extract_loop(full_path, Without(eps, Degraded, 1),
                                   Without(responses, Degraded, 1), 1,
                                   [dl |-> <<>>, sp |-> <<>>, dirs |-> {}])
        IN /\ phase' = "download"
           /\ \A i \in Degraded : PositionsOf(sp', eps[i]) = {}
           /\ dl' = others.dl
           /\ sp' = others.sp
           /\ Len(pc') = Len(others.sp)
      ]_vars

C11_Witness ==
    /\ phase = "download"
    /\ start < end
    /\ fetched[start] = 1
    /\ start \notin dirs
    /\ PositionsOf(sp, start) = {}
    /\ PositionsOf(sp, end) # {}
    /\ Len(pc) = Len(sp)

\* C12: a run that completes exits with status 0 exactly when no task failed:
\* with failed_downloads > 0 the exit status is another one; and the run
\* completes with every task at its own end, failed or not.
C12_ExitReflectsFailure ==
    phase = "finished" =>
        /\ exit_status = 0 <=> session_stats.failed_downloads = 0
        /\ \A t \in Tasks : pc[t] = "done"

\* C13: before the download phase there is no task, no image GET and no
\* change to any file; the download phase starts only when every page fetch
\* of the range has returned, with the lists built from all of them; and once
\* it has started the lists do not change and discovery does not resume.
C13_TwoPhases ==
    /\ [](phase \in {"title", "discover"} =>
            /\ Tasks = {}
            /\ gets = <<>>
            /\ fs = fs0
            /\ dl = <<>> /\ sp = <<>>)
    /\ [][(phase = "discover" /\ phase' = "download") =>
            /\ Len(responses) = (IF start <= end THEN end - start + 1 ELSE 0)
            /\ \A i \in 1..Len(responses) : responses[i] # Pending
            /\ \A e \in start..end : fetched[e] = 1
         ]_vars
    /\ [][(phase \in {"download", "finished"}) =>
            /\ dl' = dl /\ sp' = sp
            /\ fetched' = fetched
            /\ phase' \in {"download", "finished"}
         ]_vars

C13_Witness ==
    /\ phase = "download"
    /\ start < end
    /\ \E t \in Tasks : gets[t] > 0
    /\ fs # fs0
    /\ \A e \in start..end : fetched[e] = 1

\* C14: no two tasks of a run have the same destination path, whatever the
\* range and the images of each episode, the same URL appearing twice
\* included.
C14_PathUniqueness ==
    /\ \A i, j \in 1..Len(sp) : i # j => sp[i] # sp[j]
    /\ \A t, u \in Tasks : t # u => file_path(t) # file_path(u)

C14_Witness ==
    /\ phase = "download"
    /\ Len(sp) = 2
    /\ dl[1] = dl[2]
    /\ sp[1].ep = sp[2].ep
    /\ sp[1] # sp[2]

\* the temp file of task t holds what a write that raised left of it
WriteBrokeOff(t) == stat(fs, temp_path(t)) # NoFile /\ ~stat(fs, temp_path(t)).whole

\* C15: a task whose write of the body has failed ends as a failure there and
\* then: it is done with the result False, it makes no further attempt and so
\* never ends as a success; and its destination is as it was before the run.
C15_FilesystemFailureFatal ==
    \A t \in Tasks :
        WriteBrokeOff(t) =>
            /\ pc[t] = "done"
            /\ result[t] = "False"
            /\ stat(fs, file_path(t)) = stat(fs0, file_path(t))

\* a completely written response body of more than 1024 bytes
Validated(f) == f.whole /\ f.origin = "net" /\ f.size > 1024

\* C16: after every step, and after every single filesystem step within an
\* attempt (open, write, then rename or unlink), each destination path holds
\* either what it held before the run or a completely written body of more
\* than 1024 bytes, and nothing that was there before the run is gone; and a
\* destination changes only in the step of its own task that wrote the whole
\* body to the temp file, found it above 1024 bytes and renamed it, the temp
\* file being gone afterwards.  So wherever the run is interrupted, no
\* destination holds a partly written or unvalidated file.
C16_OnlyValidatedRename ==
    [][/\ \A p \in DOMAIN fs' :
             p.suffix = "jpg" => (fs'[p] = stat(fs0, p) \/ Validated(fs'[p]))
       /\ \A p \in DOMAIN fs0 : p \in DOMAIN fs'
       /\ \A t \in Tasks :
            /\ stat(fs', file_path(t)) # stat(fs, file_path(t)) =>
                  /\ pc[t] = "read"
                  /\ last'[t] > 1024
                  /\ stat(fs', file_path(t)) = Body(last'[t])
                  /\ stat(fs', temp_path(t)) = NoFile
                  /\ result'[t] = "True"
            /\ (pc[t] = "read" /\ last'[t] # NoBody) =>
                  \A g \in {opened_fs(fs, t), written_fs(fs, t, last'[t])} :
                      \A p \in DOMAIN g :
                          p.suffix = "jpg" => (g[p] = stat(fs0, p) \/ Validated(g[p]))
      ]_vars

C16_Witness ==
    /\ \E t \in Tasks : /\ result[t] = "True" /\ gets[t] > 1
                        /\ stat(fs0, file_path(t)) = NoFile
                        /\ Validated(stat(fs, file_path(t)))
                        /\ stat(fs, temp_path(t)) = NoFile
    /\ \E u \in Tasks : /\ WriteBrokeOff(u)
                        /\ CorruptBefore(u)
                        /\ stat(fs, file_path(u)) = stat(fs0, file_path(u))

\* C17: a task whose destination exists with 1024 bytes or fewer (0 and 1024
\* included) does not short-circuit: once started it has made a GET; and as
\* soon as one of its attempts has read, after status 200, a body of more than
\* 1024 bytes and written it, the destination holds exactly that body and the
\* task is done with the result True, having made no GET since.
C17_CorruptReplacement ==
    \A t \in Tasks :
        CorruptBefore(t) =>
            /\ pc[t] # "start" => gets[t] >= 1
            /\ last[t] > 1024 =>
                  /\ pc[t] = "done"
                  /\ result[t] = "True"
                  /\ stat(fs, file_path(t)) = Body(last[t])
                  /\ gets[t] = attempt[t] + 1

\* C18: the temp path of a task is the temp path of no other task and the
\* destination of none; and a step that changes a temp file is a step of the
\* task it belongs to, a step of a task changing no file but that task's own
\* temp file and destination.
C18_TempOwnership ==
    /\ [](\A t, u \in Tasks :
             /\ t # u => temp_path(t) # temp_path(u)
             /\ temp_path(t) # file_path(u))
    /\ [][\A p \in (DOMAIN fs \cup DOMAIN fs') :
            (p.suffix = "tmp" /\ stat(fs', p) # stat(fs, p)) =>
                \E t \in Tasks :
                    /\ temp_path(t) = p
                    /\ pc[t] = "read" /\ pc'[t] # "read"
                    /\ \A u \in Tasks \ {t} : pc'[u] = pc[u]
         ]_vars
    /\ [][\A t \in Tasks :
            (pc'[t] # pc[t]) =>
                \A p \in (DOMAIN fs \cup DOMAIN fs') :
                    stat(fs', p) # stat(fs, p) => p \in {temp_path(t), file_path(t)}
         ]_vars

C18_Witness ==
    /\ Len(pc) = 2
    /\ sp[1].ep = sp[2].ep
    /\ WriteBrokeOff(1) /\ WriteBrokeOff(2)
    /\ temp_path(1) # temp_path(2)
    /\ \E t \in Tasks : pc[t] = "read"

\* C19: an episode folder that exists below the output root either was there
\* before the run or belongs to an episode with at least one image: an
\* episode whose page fetch failed, whose page lacks the container or whose
\* container has no usable image has no folder.
C19_FolderOnlyIfNonEmpty ==
    \A e \in dirs :
        \/ \E p \in DOMAIN fs0 : p.ep = e
        \/ \E j \in 1..Len(sp) : sp[j].ep = e

\* the tasks that ended on the existence check, without an attempt
ShortCircuited == {t \in Tasks : pc[t] = "done" /\ gets[t] = 0}

\* C20: images_skipped is 0 in every state and in the printed statistics; a
\* task that short-circuits on an existing valid file returns True and is
\* counted in images_downloaded, which is the number of tasks that returned
\* True, the short-circuited ones included.
C20_SkippedAlwaysZero ==
    /\ session_stats.images_skipped = 0
    /\ reported # NotReported =>
          /\ reported.images_skipped = 0
          /\ reported.images_downloaded >= Cardinality(ShortCircuited)
    /\ \A t \in ShortCircuited : result[t] = "True" /\ ValidBefore(t)
    /\ session_stats.images_downloaded
          = Cardinality(ShortCircuited)
              + Cardinality({t \in Tasks : result[t] = "True" /\ gets[t] > 0})

C20_Witness ==
    /\ phase = "finished"
    /\ Tasks # {}
    /\ ShortCircuited = Tasks
    /\ reported.images_skipped = 0
    /\ reported.images_downloaded = Len(pc)
    /\ reported.total_processed = Len(pc)

\* the temp file of task t is the whole body of a rename that raised: on
\* Windows, onto the destination that was there before the run
RenameRaised(t) ==
    /\ stat(fs, temp_path(t)).whole
    /\ stat(fs, temp_path(t)).size > 1024
    /\ os_name = "nt"
    /\ CorruptBefore(t)
    /\ result[t] # "True"

C22_CacheSticky ==
    [][/\ \A k \in DOMAIN cache_data :
             k \in DOMAIN cache_data' /\ cache_data'[k] = cache_data[k]
       /\ \A k \in CheckKeys :
             (calls'[k] # calls[k] /\ k \in DOMAIN cache_data) =>
                 /\ ret'.key = k
                 /\ ret'.value = cache_data[k]
                 /\ probes'[k] = probes[k]
       /\ \A m \in PackageSet :
             /\ ( /\ env_pc = "retry"
                  /\ retry_check'[m] # retry_check[m]
                  /\ check_key(m, FALSE) \in DOMAIN cache_data
                  /\ ~cache_data[check_key(m, FALSE)] ) =>
                    /\ retry_check'[m] = "False"
                    /\ probes'[check_key(m, FALSE)] = probes[check_key(m, FALSE)]
             /\ retry_check'[m] = "True" =>
                    /\ check_key(m, FALSE) \in DOMAIN cache_data'
                    /\ cache_data'[check_key(m, FALSE)]
      ]_vars

C22_Witness ==
    \E m \in PackageSet :
        /\ first_check[m] = "False"
        /\ retry_check[m] = "False"
        /\ venv_has[m]
        /\ check_key(m, FALSE) \in DOMAIN cache_data
        /\ ~cache_data[check_key(m, FALSE)]
        /\ calls[check_key(m, FALSE)] = 2
        /\ probes[check_key(m, FALSE)] = 1

====
